---- MODULE Spec2Model ----
(***************************************************************************)
(* Model of homeassistant/components/rest/notify.py:                       *)
(* RestNotificationService.async_send_message, its recursive helper        *)
(* _data_template_creator (template rendering and per-key type coercion)   *)
(* and the three request constructions (POST, POST_JSON, GET).             *)
(*                                                                         *)
(* Python strings are sequences of one-character strings, so that int(),   *)
(* float() and str.lower() are computed and not assumed.  A Python float   *)
(* is a fixed-point number held in tenths (3.7 is 37).  A Python dict is a *)
(* sequence of key/value entries with unique keys, in insertion order.     *)
(***************************************************************************)
EXTENDS Integers, Sequences, FiniteSets, TLC

(***************************************************************************)
(* Python values.  Every value is a record of one shape; `kind` and `t`    *)
(* say which fields are meaningful.                                        *)
(***************************************************************************)
Node(kind, t, s, i, b, src, items, map) ==
    [kind |-> kind, t |-> t, s |-> s, i |-> i, b |-> b,
     src |-> src, items |-> items, map |-> map]

StrV(s)    == Node("lit", "str", s, 0, FALSE, "", <<>>, <<>>)
IntV(i)    == Node("lit", "int", <<>>, i, FALSE, "", <<>>, <<>>)
FloatV(i)  == Node("lit", "float", <<>>, i, FALSE, "", <<>>, <<>>)
BoolV(b)   == Node("lit", "bool", <<>>, 0, b, "", <<>>, <<>>)
NoneV      == Node("lit", "none", <<>>, 0, FALSE, "", <<>>, <<>>)
TplV(src)  == Node("tpl", "", <<>>, 0, FALSE, src, <<>>, <<>>)
ListV(xs)  == Node("list", "", <<>>, 0, FALSE, "", xs, <<>>)
DictV(kvs) == Node("dict", "", <<>>, 0, FALSE, "", <<>>, kvs)

Entry(k, v) == [key |-> k, val |-> v]

(***************************************************************************)
(* dict operations on sequences of entries.                                *)
(***************************************************************************)
DictKeys(d) == {d[n].key : n \in DOMAIN d}

HasKey(d, k) == \E n \in DOMAIN d : d[n].key = k

\* d[k] for a key that is present
DictAt(d, k) == d[CHOOSE n \in DOMAIN d : d[n].key = k].val

\* d[k] = v: an existing key keeps its place, a new key is appended
DictSet(d, k, v) ==
    IF HasKey(d, k)
    THEN [n \in DOMAIN d |-> IF d[n].key = k THEN Entry(k, v) ELSE d[n]]
    ELSE Append(d, Entry(k, v))

RECURSIVE DictUpdate(_, _)
\* d.update(other): the entries of other, in order, each by d[k] = v
DictUpdate(d, other) ==
    IF other = <<>> THEN d
    ELSE DictUpdate(DictSet(d, Head(other).key, Head(other).val), Tail(other))

\* {**a, **b}
DictMerge(a, b) == DictUpdate(DictUpdate(<<>>, a), b)

(***************************************************************************)
(* Characters and strings.                                                 *)
(***************************************************************************)
Digits == <<"0", "1", "2", "3", "4", "5", "6", "7", "8", "9">>

IsDigit(c) == \E d \in DOMAIN Digits : Digits[d] = c

DigitVal(c) == (CHOOSE d \in DOMAIN Digits : Digits[d] = c) - 1

IsSpace(c) == c \in {" ", "\t", "\n"}

UpperLetters ==
    <<"A", "B", "C", "D", "E", "F", "G", "H", "I", "J", "K", "L", "M",
      "N", "O", "P", "Q", "R", "S", "T", "U", "V", "W", "X", "Y", "Z">>

LowerLetters ==
    <<"a", "b", "c", "d", "e", "f", "g", "h", "i", "j", "k", "l", "m",
      "n", "o", "p", "q", "r", "s", "t", "u", "v", "w", "x", "y", "z">>

\* str.lower() on one ASCII character
LowerChar(c) ==
    IF \E n \in DOMAIN UpperLetters : UpperLetters[n] = c
    THEN LowerLetters[CHOOSE n \in DOMAIN UpperLetters : UpperLetters[n] = c]
    ELSE c

\* str.upper() on one ASCII character
UpperChar(c) ==
    IF \E n \in DOMAIN LowerLetters : LowerLetters[n] = c
    THEN UpperLetters[CHOOSE n \in DOMAIN LowerLetters : LowerLetters[n] = c]
    ELSE c

Lower(s) == [n \in DOMAIN s |-> LowerChar(s[n])]

Upper(s) == [n \in DOMAIN s |-> UpperChar(s[n])]

RECURSIVE LStrip(_)
LStrip(s) == IF s # <<>> /\ IsSpace(Head(s)) THEN LStrip(Tail(s)) ELSE s

RECURSIVE RStrip(_)
RStrip(s) ==
    IF s # <<>> /\ IsSpace(s[Len(s)]) THEN RStrip(SubSeq(s, 1, Len(s) - 1)) ELSE s

Strip(s) == RStrip(LStrip(s))

\* the sign of a stripped numeric literal and what follows it
SignOf(s) == IF s # <<>> /\ Head(s) = "-" THEN -1 ELSE 1

Unsigned(s) == IF s # <<>> /\ Head(s) \in {"+", "-"} THEN Tail(s) ELSE s

\* digits with single underscores allowed between digits only
IsDigitRun(s) ==
    /\ s # <<>>
    /\ \A n \in DOMAIN s : IsDigit(s[n]) \/ s[n] = "_"
    /\ IsDigit(s[1]) /\ IsDigit(s[Len(s)])
    /\ \A n \in 1..(Len(s) - 1) : ~(s[n] = "_" /\ s[n + 1] = "_")

RECURSIVE DigitRunVal(_, _)
DigitRunVal(s, acc) ==
    IF s = <<>> THEN acc
    ELSE IF Head(s) = "_" THEN DigitRunVal(Tail(s), acc)
    ELSE DigitRunVal(Tail(s), 10 * acc + DigitVal(Head(s)))

\* int(str) succeeds
IsIntLiteral(s) == IsDigitRun(Unsigned(Strip(s)))

\* int(str) when it succeeds
IntOfStr(s) == SignOf(Strip(s)) * DigitRunVal(Unsigned(Strip(s)), 0)

\* position of the decimal point in s, 0 when there is none
PointAt(s) ==
    IF \E n \in DOMAIN s : s[n] = "."
    THEN CHOOSE n \in DOMAIN s : s[n] = "." /\ \A m \in 1..(n - 1) : s[m] # "."
    ELSE 0

WholePart(s) == IF PointAt(s) = 0 THEN s ELSE SubSeq(s, 1, PointAt(s) - 1)

FracPart(s) == IF PointAt(s) = 0 THEN <<>> ELSE SubSeq(s, PointAt(s) + 1, Len(s))

\* float(str) succeeds, for decimal literals without exponent (the strings
\* in use hold no exponent, "inf" or "nan" forms)
IsFloatLiteral(s) ==
    LET u == Unsigned(Strip(s))
        w == WholePart(u)
        f == FracPart(u)
    IN  /\ w # <<>> \/ f # <<>>
        /\ w = <<>> \/ IsDigitRun(w)
        /\ f = <<>> \/ IsDigitRun(f)

\* float(str) when it succeeds, in tenths (literals of at most one
\* fractional digit are exact)
FloatOfStr(s) ==
    LET u == Unsigned(Strip(s))
        w == WholePart(u)
        f == FracPart(u)
    IN  SignOf(Strip(s)) *
            (10 * DigitRunVal(w, 0) + (IF f = <<>> THEN 0 ELSE DigitVal(Head(f))))

\* int(float): truncation toward zero, of a float held in tenths
IntOfFloat(x) == IF x >= 0 THEN x \div 10 ELSE -((-x) \div 10)

\* float(int), in tenths
FloatOfInt(n) == 10 * n


(***************************************************************************)
(* Optional values: <<>> is Python's None, <<x>> is x.                     *)
(***************************************************************************)
NoneOpt == <<>>

Some(x) == <<x>>

(***************************************************************************)
(* _data_template_creator: rendering and type coercion.                    *)
(***************************************************************************)
\* a type tag is a string; NoTag stands for both None (the key is not in
\* data_types) and "", which line 190 treats alike
NoTag == <<>>

TagInt   == <<"i", "n", "t">>
TagFloat == <<"f", "l", "o", "a", "t">>
TagBool  == <<"b", "o", "o", "l">>
TagStr   == <<"s", "t", "r">>

\* the keys of str_to_type
str_to_type == {TagInt, TagFloat, TagBool, TagStr}

\* isinstance(result, str_to_type[data_type]); bool is a subclass of int
IsInstance(result, data_type) ==
    CASE data_type = TagInt   -> result.t \in {"int", "bool"}
      [] data_type = TagFloat -> result.t = "float"
      [] data_type = TagBool  -> result.t = "bool"
      [] data_type = TagStr   -> result.t = "str"

Ok(v) == [err |-> "", val |-> v]

Raise(e) == [err |-> e, val |-> NoneV]

\* int(result) inside the try: ValueError is caught and gives None,
\* TypeError is not caught
ConvertInt(result) ==
    CASE result.t = "str"   -> IF IsIntLiteral(result.s)
                               THEN Ok(IntV(IntOfStr(result.s)))
                               ELSE Ok(NoneV)
      [] result.t = "float" -> Ok(IntV(IntOfFloat(result.i)))
      [] result.t = "none"  -> Raise("TypeError")
      [] result.t = "int"   -> Ok(result)
      [] result.t = "bool"  -> Ok(IntV(IF result.b THEN 1 ELSE 0))

\* float(result) inside the try
ConvertFloat(result) ==
    CASE result.t = "str"   -> IF IsFloatLiteral(result.s)
                               THEN Ok(FloatV(FloatOfStr(result.s)))
                               ELSE Ok(NoneV)
      [] result.t = "int"   -> Ok(FloatV(FloatOfInt(result.i)))
      [] result.t = "bool"  -> Ok(FloatV(FloatOfInt(IF result.b THEN 1 ELSE 0)))
      [] result.t = "none"  -> Raise("TypeError")
      [] result.t = "float" -> Ok(result)

\* result.lower() == "true" inside the try: only str has .lower(), and
\* AttributeError is not caught
ConvertBool(result) ==
    IF result.t = "str"
    THEN Ok(BoolV(Lower(result.s) = <<"t", "r", "u", "e">>))
    ELSE Raise("AttributeError")

\* the coercion with the tag lower-cased before it is looked up
CoerceTagLowered(result, data_type) ==
    IF data_type = NoTag THEN Ok(result)
    ELSE IF Lower(data_type) \notin str_to_type THEN Ok(result)
    ELSE IF IsInstance(result, Lower(data_type)) THEN Ok(result)
    ELSE CASE Lower(data_type) = TagInt   -> ConvertInt(result)
           [] Lower(data_type) = TagFloat -> ConvertFloat(result)
           [] Lower(data_type) = TagBool  -> ConvertBool(result)
           [] Lower(data_type) = TagStr   -> Ok(result)

\* lines 190-236: the coercion of a rendered scalar under a type tag
Coerce(result, data_type) ==
    IF data_type = NoTag THEN Ok(result)
    ELSE IF data_type \notin str_to_type THEN Ok(result)
    ELSE IF IsInstance(result, data_type) THEN Ok(result)
    ELSE LET lowered == Lower(data_type)
         IN  CASE lowered = TagInt   -> ConvertInt(result)
               [] lowered = TagFloat -> ConvertFloat(result)
               [] lowered = TagBool  -> ConvertBool(result)
               [] lowered = TagStr   -> Ok(result)
               [] OTHER              -> Ok(NoneV)

\* self._data_types.get(key)
TagOf(data_types, key) ==
    IF HasKey(data_types, key) THEN DictAt(data_types, key) ELSE NoTag

\* a list handing its own data_type down to its items
ItemTagInherited(data_type) == data_type

\* the data_type a list passes to its items (line 173: none)
ItemTag(data_type) == NoTag

\* the render context: kwargs with ATTR_MESSAGE set (line 168)
Kwargs(message, title, target) ==
    [message |-> message, title |-> title, target |-> target]

\* value.async_render(kwargs, parse_result=False): the rendered text, always
\* a string
Render(src, kwargs) ==
    CASE src = "{{ 42 }}"       -> <<"4", "2">>
      [] src = "{{ True }}"     -> <<"T", "r", "u", "e">>
      [] src = "{{ not True }}" -> <<"F", "a", "l", "s", "e">>
      [] src = "{{ message }}"  -> kwargs.message
      [] src = "{{ title }}"    -> IF kwargs.title = NoneOpt THEN <<>>
                                   ELSE kwargs.title[1]

Res(err, val, touched) == [err |-> err, val |-> val, touched |-> touched]

RECURSIVE Creator(_, _, _, _)
RECURSIVE CreatorList(_, _, _, _, _)
RECURSIVE CreatorDict(_, _, _, _)

\* the list built so far with the result r of one more item; an exception
\* in r ends the comprehension
ListWith(acc, r) ==
    IF r.err # "" THEN Res(r.err, NoneV, acc.touched \cup r.touched)
    ELSE Res("", ListV(Append(acc.val.items, r.val)), acc.touched \cup r.touched)

\* the dict built so far with the result r for one more key
DictWith(acc, key, r) ==
    IF r.err # "" THEN Res(r.err, NoneV, acc.touched \cup r.touched)
    ELSE Res("", DictV(DictSet(acc.val.map, key, r.val)), acc.touched \cup r.touched)

\* [_data_template_creator(item) for item in value], left to right
CreatorList(items, data_type, kwargs, data_types, acc) ==
    IF items = <<>> \/ acc.err # "" THEN acc
    ELSE CreatorList(Tail(items), data_type, kwargs, data_types,
             ListWith(acc, Creator(Head(items), ItemTag(data_type), kwargs,
                                   data_types)))

\* {key: _data_template_creator(item, self._data_types.get(key)) ...}
CreatorDict(entries, kwargs, data_types, acc) ==
    IF entries = <<>> \/ acc.err # "" THEN acc
    ELSE CreatorDict(Tail(entries), kwargs, data_types,
             DictWith(acc, Head(entries).key,
                      Creator(Head(entries).val,
                              TagOf(data_types, Head(entries).key), kwargs,
                              data_types)))

\* a coerced scalar as the creator's result
Scalar(c, touched) == Res(c.err, c.val, touched)

\* _data_template_creator(value, data_type); touched is the set of templates
\* whose hass attribute line 182 has set
Creator(value, data_type, kwargs, data_types) ==
    CASE value.kind = "list" ->
            CreatorList(value.items, data_type, kwargs, data_types,
                        Res("", ListV(<<>>), {}))
      [] value.kind = "dict" ->
            CreatorDict(value.map, kwargs, data_types, Res("", DictV(<<>>), {}))
      [] value.kind = "tpl" ->
            Scalar(Coerce(StrV(Render(value.src, kwargs)), data_type), {value.src})
      [] value.kind = "lit" ->
            Scalar(Coerce(value, data_type), {})


(***************************************************************************)
(* The service object and async_send_message.                              *)
(***************************************************************************)
\* homeassistant.components.notify.ATTR_TITLE_DEFAULT
ATTR_TITLE_DEFAULT ==
    <<"H", "o", "m", "e", " ", "A", "s", "s", "i", "s", "t", "a", "n", "t">>

MethodPost     == <<"P", "O", "S", "T">>
MethodPostJson == <<"P", "O", "S", "T", "_", "J", "S", "O", "N">>

\* RestNotificationService.__init__ on the arguments async_get_service
\* passes: the method is upper-cased; data_types None becomes {} (both are
\* <<>> here, as are None and {} for data, data_template and params, which
\* the code only tests for truth)
RestNotificationService(config) == [config EXCEPT !.method = Upper(config.method)]

Built(err, data, touched) == [err |-> err, data |-> data, touched |-> touched]

\* line 157: data = {self._message_param_name: message}
MessageField(svc, message) == <<Entry(svc.message_param_name, StrV(message))>>

\* lines 159-160: the title field, kwargs.get(ATTR_TITLE, ATTR_TITLE_DEFAULT)
TitleField(svc, data, title) ==
    IF svc.title_param_name # NoneOpt
    THEN DictSet(data, svc.title_param_name[1],
                 StrV(IF title = NoneOpt THEN ATTR_TITLE_DEFAULT ELSE title[1]))
    ELSE data

\* the target field taken from the end of the list
TargetFieldLast(svc, data, target) ==
    IF svc.target_param_name # NoneOpt /\ target # NoneOpt
    THEN IF target[1] = <<>>
         THEN Built("IndexError", data, {})
         ELSE Built("", DictSet(data, svc.target_param_name[1],
                                StrV(target[1][Len(target[1])])), {})
    ELSE Built("", data, {})

\* lines 162-165: the target field, kwargs[ATTR_TARGET][0]; an empty list has
\* no element 0
TargetField(svc, data, target) ==
    IF svc.target_param_name # NoneOpt /\ target # NoneOpt
    THEN IF target[1] = <<>>
         THEN Built("IndexError", data, {})
         ELSE Built("", DictSet(data, svc.target_param_name[1], StrV(target[1][1])),
                    {})
    ELSE Built("", data, {})

\* lines 157-165: the message, title and target fields
BaseFields(svc, message, title, target) ==
    TargetField(svc, TitleField(svc, MessageField(svc, message), title), target)

\* data.update(r) for the creator's result r
Updated(acc, r) ==
    IF r.err # "" THEN Built(r.err, acc.data, acc.touched \cup r.touched)
    ELSE Built("", DictUpdate(acc.data, r.val.map), acc.touched \cup r.touched)

\* lines 238-239 and 240-241: data.update(_data_template_creator(tree)) when
\* the tree is non-empty
MergeTree(acc, tree, kwargs, data_types) ==
    IF acc.err # "" \/ tree = <<>> THEN acc
    ELSE Updated(acc, Creator(DictV(tree), NoTag, kwargs, data_types))

\* the two trees merged in the other order
MergeDataTemplateFirst(svc, base, kwargs) ==
    MergeTree(MergeTree(base, svc.data_template, kwargs, svc.data_types),
              svc.data, kwargs, svc.data_types)

\* lines 167-241: self._data first, then self._data_template
MergeData(svc, base, kwargs) ==
    MergeTree(MergeTree(base, svc.data, kwargs, svc.data_types),
              svc.data_template, kwargs, svc.data_types)

\* self._auth or httpx.USE_CLIENT_DEFAULT
AuthOrDefault(auth) == IF auth = NoneOpt THEN Some("USE_CLIENT_DEFAULT") ELSE auth

Request(verb, svc, params, form, json, auth) ==
    [verb |-> verb, url |-> svc.resource, headers |-> svc.headers,
     params |-> params, form |-> form, json |-> json, auth |-> auth]

\* the GET's query parameters with the static params merged last
GetParamsStaticLast(params, data) ==
    IF params # <<>> THEN DictMerge(data, params) ELSE data

\* the query parameters of the GET (line 267)
GetParams(params, data) == IF params # <<>> THEN DictMerge(params, data) ELSE data

\* lines 243-270: the one request handed to the client
BuildRequest(svc, data) ==
    IF svc.method = MethodPost
    THEN Request("POST", svc, svc.params, Some(data), NoneOpt, AuthOrDefault(svc.auth))
    ELSE IF svc.method = MethodPostJson
    THEN Request("POST", svc, svc.params, NoneOpt, Some(data), AuthOrDefault(svc.auth))
    ELSE Request("GET", svc, GetParams(svc.params, data), NoneOpt, NoneOpt, svc.auth)

\* the service object after a send that builds its fields in self._data
ServiceAfterSendAliased(svc, data) == [svc EXCEPT !.data = data]

\* the service object after a send: no line of async_send_message assigns
\* to an attribute of self or changes a dict it holds
ServiceAfterSend(svc, data) == svc

\* lines 243-270 on the fields built: the request issued, or the exception
\* raised before any request
Dispatch(svc, full) ==
    [err |-> full.err,
     touched |-> full.touched,
     svc |-> ServiceAfterSend(svc, full.data),
     request |-> IF full.err # "" THEN NoneOpt
                 ELSE Some(BuildRequest(svc, full.data))]

\* async_send_message up to its await
async_send_message(svc, message, title, target) ==
    Dispatch(svc, MergeData(svc, BaseFields(svc, message, title, target),
                            Kwargs(message, title, target)))

\* lines 272-303: the log line chosen for a status code
Classify(status) ==
    IF status >= 500 /\ status < 600 THEN "server_error"
    ELSE IF status >= 400 /\ status < 500 THEN "client_error"
    ELSE IF status >= 200 /\ status < 300 THEN "success"
    ELSE "other"


(***************************************************************************)
(* Bounds and input sets.                                                  *)
(***************************************************************************)
\* callers that may have a send in flight at the same time
NumCalls == 2

\* sends started in one behaviour
MaxSends == 2

\* nesting depth of the value trees under a top-level key
MaxDepth == 2

Calls == 1..NumCalls

TemplateSources ==
    {"{{ 42 }}", "{{ True }}", "{{ not True }}", "{{ message }}", "{{ title }}"}

Strings ==
    { <<"4", "2">>, <<"-", "7">>, <<" ", "4", "2", " ">>, <<"4", "_", "2">>,
      <<"4", "x", "4">>, <<>>, <<"1">>, <<"3", ".", "7">>,
      <<"t", "r", "u", "e">>, <<"T", "r", "u", "e">>, <<"T", "R", "U", "E">>,
      <<"f", "a", "l", "s", "e">>, <<"F", "a", "l", "s", "e">> }

\* the scalars a validated tree can hold: str, int, float (in tenths), bool,
\* None
Literals ==
    {StrV(s) : s \in Strings} \cup {IntV(i) : i \in {0, 1, 41, -3}}
        \cup {FloatV(x) : x \in {37, 20, -5}} \cup {BoolV(b) : b \in BOOLEAN}
        \cup {NoneV}

Leaves == Literals \cup {TplV(src) : src \in TemplateSources}

Tags ==
    { TagInt, TagFloat, TagBool, TagStr, NoTag,
      <<"B", "o", "o", "l">>, <<"I", "N", "T">>,
      <<"b", "o", "o", "l", "e", "a", "n">> }

Statuses == {200, 301, 404, 503, 600}

MsgHi == <<"h", "i">>
Msg7  == <<"7">>

Args(message, title, target) ==
    [message |-> message, title |-> title, target |-> target]

\* a configuration as async_get_service reads it from the validated config
DefaultConfig ==
    [resource |-> "http://127.0.0.1/notify",
     method |-> <<"G", "E", "T">>,
     headers |-> <<>>,
     params |-> <<>>,
     message_param_name |-> "message",
     title_param_name |-> NoneOpt,
     target_param_name |-> NoneOpt,
     data |-> <<>>,
     data_template |-> <<>>,
     auth |-> NoneOpt,
     verify_ssl |-> TRUE,
     data_types |-> <<>>]

(***************************************************************************)
(* State.                                                                  *)
(***************************************************************************)
VARIABLES
    self,       \* the RestNotificationService object
    self0,      \* the object as __init__ left it (history)
    tpl_hass,   \* templates whose hass attribute a send has set (line 182)
    calls,      \* per caller: where its async_send_message stands
    budget,     \* sends the host may still start
    inputs      \* the arguments the host calls with

vars == <<self, self0, tpl_hass, calls, budget, inputs>>

IdleCall ==
    [pc |-> "idle", args |-> Args(<<>>, NoneOpt, NoneOpt), reqs |-> <<>>,
     err |-> "", status |-> 0, log |-> ""]

\* the state after async_get_service(config), before any send
Constructed(config, args, sends) ==
    /\ self = RestNotificationService(config)
    /\ self0 = self
    /\ tpl_hass \in {{}, TemplateSources}
    /\ calls = [c \in Calls |-> IdleCall]
    /\ budget = sends
    /\ inputs = args

(***************************************************************************)
(* Actions.                                                                *)
(***************************************************************************)
\* the effect of the outcome r of async_send_message(a) run by caller c
Started(c, a, r) ==
    /\ self' = r.svc
    /\ tpl_hass' = tpl_hass \cup r.touched
    /\ calls' = [calls EXCEPT ![c] =
           [pc |-> IF r.err # "" THEN "raised" ELSE "awaiting",
            args |-> a, reqs |-> r.request, err |-> r.err,
            status |-> 0, log |-> ""]]

\* a caller runs async_send_message up to the await of the response
Send(c) ==
    /\ calls[c].pc = "idle"
    /\ budget > 0
    /\ \E a \in inputs :
         Started(c, a, async_send_message(self, a.message, a.title, a.target))
    /\ budget' = budget - 1
    /\ UNCHANGED <<self0, inputs>>

\* the response arrives: its status is logged and the call returns
Respond(c) ==
    /\ calls[c].pc = "awaiting"
    /\ \E status \in Statuses :
         calls' = [calls EXCEPT ![c].pc = "done", ![c].status = status,
                                ![c].log = Classify(status)]
    /\ UNCHANGED <<self, self0, tpl_hass, budget, inputs>>

\* the client raises (connection failure, timeout): the call raises
TransportError(c) ==
    /\ calls[c].pc = "awaiting"
    /\ calls' = [calls EXCEPT ![c].pc = "raised", ![c].err = "TransportError"]
    /\ UNCHANGED <<self, self0, tpl_hass, budget, inputs>>

\* the caller is free for its next send
Return(c) ==
    /\ calls[c].pc \in {"done", "raised"}
    /\ calls' = [calls EXCEPT ![c] = IdleCall]
    /\ UNCHANGED <<self, self0, tpl_hass, budget, inputs>>

Next ==
    \E c \in Calls :
        \/ Send(c)
        \/ Respond(c)
        \/ TransportError(c)
        \/ Return(c)

(***************************************************************************)
(* Coercion of one top-level key: every leaf under every tag.              *)
(***************************************************************************)
CoerceArgs == {Args(MsgHi, NoneOpt, NoneOpt), Args(Msg7, Some(<<"4", "2">>), NoneOpt)}

InitCoerce ==
    \E v \in Leaves, tag \in Tags :
        Constructed([DefaultConfig EXCEPT
                        !.method = MethodPostJson,
                        !.data_template = <<Entry("k", v)>>,
                        !.data_types = <<Entry("k", tag)>>],
                    CoerceArgs, 1)

SpecCoerce == InitCoerce /\ [][Next]_vars


(***************************************************************************)
(* Nested trees under one top-level key of data.                           *)
(***************************************************************************)
NestKeys == {"k", "j"}

NestLeaves ==
    { StrV(<<"4", "2">>), StrV(<<"4", "x", "4">>), TplV("{{ message }}"),
      IntV(41), NoneV }

RECURSIVE Trees(_)
\* the trees of nesting depth at most d: a leaf, a list of one tree or a
\* dict of one entry
Trees(d) ==
    IF d = 0 THEN NestLeaves
    ELSE NestLeaves
            \cup {ListV(<<x>>) : x \in Trees(d - 1)}
            \cup {DictV(<<Entry(k, x)>>) : k \in NestKeys, x \in Trees(d - 1)}

NestArgs ==
    {Args(Msg7, Some(<<"4", "2">>), Some(<< <<"5">>, <<"6">> >>))}

InitNested ==
    \E top \in NestKeys, tree \in Trees(MaxDepth), tag \in {TagInt, TagBool} :
        Constructed([DefaultConfig EXCEPT
                        !.method = MethodPostJson,
                        !.title_param_name = Some("title"),
                        !.target_param_name = Some("target"),
                        !.data = <<Entry(top, tree)>>,
                        !.data_types = <<Entry("k", tag), Entry("message", TagInt),
                                         Entry("title", TagInt),
                                         Entry("target", TagInt)>>],
                    NestArgs, 1)

SpecNested == InitNested /\ [][Next]_vars

(***************************************************************************)
(* Field construction and merge order: colliding names and keys.           *)
(***************************************************************************)
S1 == StrV(<<"1">>)

MergeDatas ==
    { <<>>,
      <<Entry("x", S1)>>,
      <<Entry("x", S1), Entry("title", StrV(<<"D">>))>>,
      <<Entry("message", TplV("{{ title }}"))>> }

MergeTemplates ==
    { <<>>,
      <<Entry("x", TplV("{{ message }}"))>>,
      <<Entry("y", IntV(41)), Entry("x", StrV(<<"4", "2">>))>>,
      <<Entry("target", StrV(<<"T">>))>> }

MergeArgs ==
    {Args(MsgHi, title, target) :
        title \in {NoneOpt, Some(<<"T">>)},
        target \in {NoneOpt, Some(<<>>), Some(<< <<"a">>, <<"b">> >>)}}

InitMerge ==
    \E title_name \in {NoneOpt, Some("title"), Some("message")},
       target_name \in {NoneOpt, Some("target"), Some("title")},
       data \in MergeDatas, data_template \in MergeTemplates,
       method \in {MethodPostJson, <<"G", "E", "T">>} :
        Constructed([DefaultConfig EXCEPT
                        !.method = method,
                        !.title_param_name = title_name,
                        !.target_param_name = target_name,
                        !.data = data,
                        !.data_template = data_template,
                        !.data_types = <<Entry("x", TagInt)>>],
                    MergeArgs, 1)

SpecMerge == InitMerge /\ [][Next]_vars

(***************************************************************************)
(* Request construction: every method, static params, auth.                *)
(***************************************************************************)
DispatchMethods ==
    { <<"G", "E", "T">>, MethodPost, MethodPostJson,
      <<"p", "o", "s", "t", "_", "j", "s", "o", "n">>, <<"P", "U", "T">> }

DispatchParams ==
    { <<>>,
      <<Entry("q", S1)>>,
      <<Entry("message", StrV(<<"s">>)), Entry("q", S1)>> }

DispatchArgs == {Args(MsgHi, NoneOpt, NoneOpt), Args(Msg7, NoneOpt, NoneOpt)}

InitDispatch ==
    \E method \in DispatchMethods, params \in DispatchParams,
       auth \in {NoneOpt, Some("basic")},
       data_template \in {<<>>, <<Entry("k", TplV("{{ message }}")),
                                  Entry("b", StrV(<<"T", "r", "u", "e">>))>>} :
        Constructed([DefaultConfig EXCEPT
                        !.method = method,
                        !.params = params,
                        !.auth = auth,
                        !.headers = <<Entry("Content-Type", StrV(<<"j">>))>>,
                        !.data_template = data_template,
                        !.data_types = <<Entry("k", TagInt), Entry("b", TagBool)>>],
                    DispatchArgs, 1)

SpecDispatch == InitDispatch /\ [][Next]_vars

(***************************************************************************)
(* Concurrent sends on one service.                                        *)
(***************************************************************************)
ConcArgs ==
    {Args(message, title, NoneOpt) :
        message \in {MsgHi, Msg7}, title \in {NoneOpt, Some(<<"4", "2">>)}}

InitConc ==
    \E method \in {MethodPostJson, <<"G", "E", "T">>},
       data \in {<<>>, <<Entry("d", TplV("{{ title }}"))>>} :
        Constructed([DefaultConfig EXCEPT
                        !.method = method,
                        !.title_param_name = Some("title"),
                        !.data = data,
                        !.data_template = <<Entry("k", TplV("{{ message }}"))>>,
                        !.data_types = <<Entry("k", TagInt), Entry("d", TagInt)>>],
                    ConcArgs, MaxSends)

SpecConc == InitConc /\ [][Next]_vars

(***************************************************************************)
(* What the properties speak of.                                           *)
(***************************************************************************)
RECURSIVE NatStr(_)
\* the decimal digits of a natural number
NatStr(n) ==
    IF n < 10 THEN <<Digits[n + 1]>>
    ELSE Append(NatStr(n \div 10), Digits[(n % 10) + 1])

\* str(n) for an int
IntStr(n) == IF n < 0 THEN <<"-">> \o NatStr(-n) ELSE NatStr(n)

\* str(x) for a float held in tenths
FloatStr(x) ==
    (IF x < 0 THEN <<"-">> ELSE <<>>)
        \o NatStr((IF x < 0 THEN -x ELSE x) \div 10) \o <<".">>
        \o NatStr((IF x < 0 THEN -x ELSE x) % 10)

\* str(v) for a scalar
StrForm(v) ==
    CASE v.t = "str"   -> v.s
      [] v.t = "int"   -> IntStr(v.i)
      [] v.t = "float" -> FloatStr(v.i)
      [] v.t = "bool"  -> IF v.b THEN <<"T", "r", "u", "e">>
                          ELSE <<"F", "a", "l", "s", "e">>
      [] v.t = "none"  -> <<"N", "o", "n", "e">>

\* a leaf as rendered for the caller's arguments, before any coercion
RenderedLeaf(v, a) ==
    IF v.kind = "tpl"
    THEN StrV(Render(v.src, Kwargs(a.message, a.title, a.target)))
    ELSE v

IsLeaf(v) == v.kind \in {"lit", "tpl"}

\* the caller has run async_send_message up to its await or its exception
HasRun(c) == calls[c].pc # "idle"

\* the caller's request went out
Requested(c) == calls[c].reqs # <<>>

\* the fields map of a request: the JSON body, the form body or, for a GET,
\* the query parameters
Payload(req) ==
    IF req.json # NoneOpt THEN req.json[1]
    ELSE IF req.form # NoneOpt THEN req.form[1]
    ELSE req.params

PayloadOf(c) == Payload(calls[c].reqs[1])

KwargsOf(c) == Kwargs(calls[c].args.message, calls[c].args.title, calls[c].args.target)

\* the value the top-level key of a tree resolves to for caller c
ResolvedKey(c, tree, key) ==
    Creator(DictAt(tree, key), TagOf(self.data_types, key), KwargsOf(c),
            self.data_types).val

TitleConfigured == self.title_param_name # NoneOpt

\* the target field is written for caller c
TargetWritten(c) == self.target_param_name # NoneOpt /\ calls[c].args.target # NoneOpt

TitleSent(c) ==
    StrV(IF calls[c].args.title = NoneOpt THEN ATTR_TITLE_DEFAULT
         ELSE calls[c].args.title[1])

\* the message, title or target value held under key before data is merged:
\* of these three the last written wins
BaseValue(c, key) ==
    IF TargetWritten(c) /\ key = self.target_param_name[1]
    THEN StrV(calls[c].args.target[1][1])
    ELSE IF TitleConfigured /\ key = self.title_param_name[1]
    THEN TitleSent(c)
    ELSE StrV(calls[c].args.message)

\* the names of the message, title and target fields written for caller c
BaseKeys(c) ==
    {self.message_param_name}
        \cup (IF TitleConfigured THEN {self.title_param_name[1]} ELSE {})
        \cup (IF TargetWritten(c) THEN {self.target_param_name[1]} ELSE {})

\* the top-level keys of data and data_template
DataKeys == DictKeys(self.data) \cup DictKeys(self.data_template)

\* the entries of data_template that hold a scalar or a template under a
\* key whose tag is one of tags
TaggedLeaves(tags) ==
    {n \in DOMAIN self.data_template :
        /\ IsLeaf(self.data_template[n].val)
        /\ TagOf(self.data_types, self.data_template[n].key) \in tags}

\* the entries of data_template that hold a scalar or a template under a
\* key whose tag is none of int, float, bool, str
UnsupportedLeaves ==
    {n \in DOMAIN self.data_template :
        /\ IsLeaf(self.data_template[n].val)
        /\ TagOf(self.data_types, self.data_template[n].key) \notin str_to_type}

\* entry n of data_template as rendered for caller c
RenderedEntry(c, n) == RenderedLeaf(self.data_template[n].val, calls[c].args)

\* caller c's request went out and carries value v for entry n of
\* data_template
FieldIs(c, n, v) ==
    /\ Requested(c)
    /\ HasKey(PayloadOf(c), self.data_template[n].key)
    /\ DictAt(PayloadOf(c), self.data_template[n].key) = v

\* C1's reading of the int tag: an int stays, anything else is parsed from
\* its string form, and becomes null when that is no integer literal
IntOrNull(v) ==
    IF v.t = "int" THEN v
    ELSE IF IsIntLiteral(StrForm(v)) THEN IntV(IntOfStr(StrForm(v)))
    ELSE NoneV

\* C1: every scalar under a top-level key tagged int is sent as the integer
\* it already is, or as the integer parsed from its string form, or as null
\* when its string form is not an integer literal; the send never raises.
C1_IntTagParsesOrNulls ==
    \A c \in Calls : HasRun(c) =>
        \A n \in TaggedLeaves({TagInt}) :
            FieldIs(c, n, IntOrNull(RenderedEntry(c, n)))

\* C2: a string that is not an integer literal, tagged int, is sent in the
\* POST_JSON body with its original string value and type.
C2_BadIntStringIsKept ==
    \A c \in Calls : HasRun(c) =>
        \A n \in TaggedLeaves({TagInt}) :
            (RenderedEntry(c, n).t = "str" /\ ~IsIntLiteral(RenderedEntry(c, n).s))
                => /\ FieldIs(c, n, RenderedEntry(c, n))
                   /\ calls[c].reqs[1].json # NoneOpt

\* C3's reading of the bool tag
TrueIffStringTrue(v) == BoolV(Lower(StrForm(v)) = <<"t", "r", "u", "e">>)

\* C3: every scalar under a top-level key tagged bool is sent as the boolean
\* "its lowercase string form equals true"; the coercion never raises.
C3_BoolTagNeverFails ==
    \A c \in Calls : HasRun(c) =>
        \A n \in TaggedLeaves({TagBool}) :
            FieldIs(c, n, TrueIffStringTrue(RenderedEntry(c, n)))

\* C5: under a tag that is not exactly int, float, bool or str the field
\* keeps the rendered value, unchanged in value and type, and the send goes
\* on to its request.
C5_UnsupportedTagKeepsRendered ==
    \A c \in Calls : HasRun(c) =>
        \A n \in UnsupportedLeaves : FieldIs(c, n, RenderedEntry(c, n))

\* C5 witness: the template {{ not True }} under the tag "boolean" has been
\* sent as the string "False", and the call has returned.
C5_Witness ==
    \E c \in Calls :
        /\ calls[c].pc = "done"
        /\ self.data_template = <<Entry("k", TplV("{{ not True }}"))>>
        /\ self.data_types = <<Entry("k", <<"b", "o", "o", "l", "e", "a", "n">>)>>
        /\ DictAt(PayloadOf(c), "k") = StrV(<<"F", "a", "l", "s", "e">>)

\* C9: a send raises to its caller only when the transport fails, whatever
\* the values and tags and whatever the status code; and it issues no second
\* request.
C9_OnlyTransportRaises ==
    \A c \in Calls :
        /\ calls[c].pc = "raised" => calls[c].err = "TransportError"
        /\ Len(calls[c].reqs) <= 1


(***************************************************************************)
(* Where coercion applies in a tree.                                       *)
(***************************************************************************)
KeyStep(k) == [in |-> "dict", key |-> k, idx |-> 0]

IdxStep(n) == [in |-> "list", key |-> "", idx |-> n]

RECURSIVE LeafPaths(_)
\* the paths from a node to the scalars and templates under it
LeafPaths(node) ==
    IF IsLeaf(node) THEN {<<>>}
    ELSE IF node.kind = "list"
    THEN UNION {{<<IdxStep(n)>> \o p : p \in LeafPaths(node.items[n])} :
                    n \in DOMAIN node.items}
    ELSE UNION {{<<KeyStep(node.map[n].key)>> \o p : p \in LeafPaths(node.map[n].val)} :
                    n \in DOMAIN node.map}

RECURSIVE NodeAt(_, _)
\* the node a path leads to
NodeAt(node, path) ==
    IF path = <<>> THEN node
    ELSE IF Head(path).in = "list"
    THEN NodeAt(node.items[Head(path).idx], Tail(path))
    ELSE NodeAt(DictAt(node.map, Head(path).key), Tail(path))

\* the tag of the key a leaf sits directly under; none for a list item
TagByParentKey(path) ==
    IF path[Len(path)].in = "dict"
    THEN TagOf(self.data_types, path[Len(path)].key)
    ELSE NoTag

\* the tag of a leaf that is the value of a top-level key; none below that
TagAtTopOnly(path) ==
    IF Len(path) = 1 THEN TagOf(self.data_types, path[1].key) ELSE NoTag

\* the leaf of self.data at path as caller c's request carries it
SentAt(c, path) == NodeAt(DictV(PayloadOf(c)), path)

\* the leaf of self.data at path, rendered for caller c and coerced under tag
CoercedAt(c, path, tag) ==
    Coerce(RenderedLeaf(NodeAt(DictV(self.data), path), calls[c].args), tag).val

\* the message, title and target fields of caller c's request that no key
\* of data or data_template overwrites are the arguments as strings,
\* whatever data_types says of their names
BaseFieldsUncoerced(c) ==
    \A key \in BaseKeys(c) \ DataKeys :
        DictAt(PayloadOf(c), key) = BaseValue(c, key)

\* C4 as stated: only the values of top-level keys are coerced; a key of a
\* mapping nested in a mapping or in a sequence is rendered and never
\* coerced, even when data_types names it; message, title and target are
\* never coerced.
C4_OnlyTopLevelKeysCoerced ==
    \A c \in Calls : Requested(c) =>
        /\ \A p \in LeafPaths(DictV(self.data)) :
               SentAt(c, p) = CoercedAt(c, p, TagAtTopOnly(p))
        /\ BaseFieldsUncoerced(c)

\* C4 as amended: data_types is looked up by key name for the entries of
\* every mapping of the tree, at any depth and also inside sequences: a
\* scalar or template is coerced under the tag of the key it sits directly
\* under, an item of a sequence is never coerced, and message, title and
\* target are never coerced.
C4_CoercedByParentKeyAtAnyDepth ==
    \A c \in Calls : Requested(c) =>
        /\ \A p \in LeafPaths(DictV(self.data)) :
               SentAt(c, p) = CoercedAt(c, p, TagByParentKey(p))
        /\ BaseFieldsUncoerced(c)

\* C4 witness: the string "42" under key k nested in the mapping of the
\* top-level key j, with k tagged int, was sent as the integer 42.
C4_Witness ==
    \E c \in Calls :
        /\ calls[c].pc = "done"
        /\ self.data = <<Entry("j", DictV(<<Entry("k", StrV(<<"4", "2">>))>>))>>
        /\ TagOf(self.data_types, "k") = TagInt
        /\ DictAt(PayloadOf(c), "j") = DictV(<<Entry("k", IntV(42))>>)


(***************************************************************************)
(* Field construction, merge order, request construction, concurrency.     *)
(***************************************************************************)
\* C6: the fields are written in the order message/title/target, data,
\* data_template, and the last writer of a key wins: a key of data_template
\* carries the data_template value, else a key of data the data value, else
\* the message, title or target value.
C6_LaterSourceWins ==
    \A c \in Calls : Requested(c) =>
        \A key \in DictKeys(PayloadOf(c)) :
            DictAt(PayloadOf(c), key) =
                IF HasKey(self.data_template, key)
                THEN ResolvedKey(c, self.data_template, key)
                ELSE IF HasKey(self.data, key)
                THEN ResolvedKey(c, self.data, key)
                ELSE BaseValue(c, key)

\* C6 witness: key x is in data and in data_template with different
\* resolved values, and the request that went out carries data_template's.
C6_Witness ==
    \E c \in Calls :
        /\ calls[c].pc = "done"
        /\ HasKey(self.data, "x") /\ HasKey(self.data_template, "x")
        /\ ResolvedKey(c, self.data, "x") # ResolvedKey(c, self.data_template, "x")
        /\ DictAt(PayloadOf(c), "x") = ResolvedKey(c, self.data_template, "x")

\* C7: the request's fields are exactly the message field, the title field
\* iff a title name is configured, the target field iff a target name is
\* configured and a target was given, and one field per top-level key of
\* data and data_template; where data does not overwrite them the title
\* field holds the given title or else the default title, the target field
\* holds the first target only, and the message field the message; with no
\* colliding names the number of fields is the sum.
C7_BaseFieldsExact ==
    \A c \in Calls : Requested(c) =>
        /\ DictKeys(PayloadOf(c)) = BaseKeys(c) \cup DataKeys
        /\ Len(PayloadOf(c)) = Cardinality(BaseKeys(c) \cup DataKeys)
        /\ \A key \in BaseKeys(c) \ DataKeys :
               DictAt(PayloadOf(c), key) = BaseValue(c, key)
        /\ (/\ Cardinality(BaseKeys(c)) = 1 + (IF TitleConfigured THEN 1 ELSE 0)
                                            + (IF TargetWritten(c) THEN 1 ELSE 0)
            /\ BaseKeys(c) \cap DataKeys = {}
            /\ DictKeys(self.data) \cap DictKeys(self.data_template) = {})
             => Len(PayloadOf(c)) = Cardinality(BaseKeys(c)) + Len(self.data)
                                        + Len(self.data_template)

\* C7 witness: with title and target names configured, no title given and
\* the targets a and b, a request went out whose only fields are the
\* message, the default title and the target a.
C7_Witness ==
    \E c \in Calls :
        /\ calls[c].pc = "done"
        /\ self.data = <<>> /\ self.data_template = <<>>
        /\ calls[c].args.title = NoneOpt
        /\ calls[c].args.target = Some(<< <<"a">>, <<"b">> >>)
        /\ PayloadOf(c) = <<Entry("message", StrV(MsgHi)),
                            Entry("title", StrV(ATTR_TITLE_DEFAULT)),
                            Entry("target", StrV(<<"a">>))>>

\* the merged fields map of caller c's send
FieldsOf(c) ==
    MergeData(self, BaseFields(self, calls[c].args.message, calls[c].args.title,
                               calls[c].args.target), KwargsOf(c)).data

\* C8: a send that reaches its dispatch issues exactly one request: under
\* POST the fields map is the form body and the static params the query;
\* under POST_JSON the fields map is the JSON body, each field with its
\* resolved type; under any other method a GET without body whose query is
\* the union of static params and fields, the fields winning.
C8_OneRequestByMethod ==
    \A c \in Calls :
        /\ calls[c].pc \in {"awaiting", "done"} => Len(calls[c].reqs) = 1
        /\ Requested(c) =>
             CASE self.method = MethodPost ->
                    /\ calls[c].reqs[1].verb = "POST"
                    /\ calls[c].reqs[1].form = Some(FieldsOf(c))
                    /\ calls[c].reqs[1].json = NoneOpt
                    /\ calls[c].reqs[1].params = self.params
               [] self.method = MethodPostJson ->
                    /\ calls[c].reqs[1].verb = "POST"
                    /\ calls[c].reqs[1].json = Some(FieldsOf(c))
                    /\ calls[c].reqs[1].form = NoneOpt
                    /\ calls[c].reqs[1].params = self.params
               [] OTHER ->
                    /\ calls[c].reqs[1].verb = "GET"
                    /\ calls[c].reqs[1].form = NoneOpt
                    /\ calls[c].reqs[1].json = NoneOpt
                    /\ DictKeys(calls[c].reqs[1].params)
                         = DictKeys(self.params) \cup DictKeys(FieldsOf(c))
                    /\ \A key \in DictKeys(calls[c].reqs[1].params) :
                         DictAt(calls[c].reqs[1].params, key) =
                            IF HasKey(FieldsOf(c), key) THEN DictAt(FieldsOf(c), key)
                            ELSE DictAt(self.params, key)

\* C8 witness: under a method other than POST and POST_JSON a GET went out
\* whose query holds the static q and, for the colliding name message, the
\* message of the call.
C8_Witness ==
    \E c \in Calls :
        /\ calls[c].pc = "done"
        /\ self.method \in DispatchMethods \ {MethodPost, MethodPostJson}
        /\ HasKey(self.params, "message")
        /\ calls[c].reqs[1].verb = "GET"
        /\ DictAt(calls[c].reqs[1].params, "message") = StrV(calls[c].args.message)
        /\ DictAt(calls[c].reqs[1].params, "q") = S1

\* C8 witness for the JSON body: a call returned whose POST_JSON body holds
\* the integer 7 and the boolean true.
C8_JsonWitness ==
    \E c \in Calls :
        /\ calls[c].pc = "done"
        /\ calls[c].reqs[1].json # NoneOpt
        /\ HasKey(PayloadOf(c), "k")
        /\ DictAt(PayloadOf(c), "k") = IntV(7)
        /\ DictAt(PayloadOf(c), "b") = BoolV(TRUE)

\* the request the caller's send produces when it is the only send on the
\* service as constructed
AloneRequest(c) ==
    async_send_message(self0, calls[c].args.message, calls[c].args.title,
                       calls[c].args.target).request

====
